---------------------------- MODULE Spec2Model ----------------------------
(* A state-machine model of the rig synthesizers of blender_scripts:      *)
(* vrmauto.py (script), vrmrig.py (add-on classes), fingers.py/utils.py.  *)
(* The armature is a set of named bones with head, tail, parent, deform   *)
(* flag and layer; pose-bone constraints and drivers are kept in creation *)
(* order. Every synthesizer call is split at the points where the object  *)
(* mode changes: entering the edit scope and running its body, leaving    *)
(* the scope (the finally clause), and the pose-side wiring after it.     *)
EXTENDS Integers, Sequences, FiniteSets, TLC

VARIABLES bones, constraints, drivers, names, mode, pc, frame, last, budget

vars == <<bones, constraints, drivers, names, mode, pc, frame, last, budget>>

(***************************************************************************)
(* Bounds of the model.                                                    *)
(***************************************************************************)
\* number of synthesizer calls in one behaviour of Spec
MaxCalls == 2

\* number of finger calls in one behaviour of SpecFinger
MaxFingerCalls == 2

\* number of limb calls in one behaviour of SpecLimb
MaxLimbCalls == 2

\* number of symmetrizer calls in one behaviour of SpecNames
MaxSymCalls == 2

\* number of pieces of an exported bone name in SpecNames
MaxTokens == 5

(***************************************************************************)
(* Vectors. Coordinates are integers in centimetres; the base skeleton    *)
(* sits on a 30 cm grid so that the code's *1.5, /3 and *0.7 are exact.    *)
(***************************************************************************)
Zero == <<0, 0, 0>>

VAdd(a, b) == <<a[1] + b[1], a[2] + b[2], a[3] + b[3]>>

VSub(a, b) == <<a[1] - b[1], a[2] - b[2], a[3] - b[3]>>

\* v * (num/den), exact when den divides every coordinate of v * num
VMul(v, num, den) == <<(v[1] * num) \div den, (v[2] * num) \div den, (v[3] * num) \div den>>

Cross(a, b) == <<a[2] * b[3] - a[3] * b[2], a[3] * b[1] - a[1] * b[3], a[1] * b[2] - a[2] * b[1]>>

\* squared length: Vector.length == 0 exactly when this is 0
Len2(v) == v[1] * v[1] + v[2] * v[2] + v[3] * v[3]

\* Vector.to_2d().cross(Vector((0, 1))): x1*y2 - y1*x2 with (x2, y2) = (0, 1)
Cross2dUp(v) == v[1] * 1 - v[2] * 0

(***************************************************************************)
(* An end of a bone is a grid vector, or, where the code computes it with  *)
(* normalized(), length or a rotation, the term of its inputs:             *)
(*   Along(at, dir, len2, plus) = at + dir.normalized() * sqrt(len2) + plus *)
(*   Pole(at, cross, base, span, up2, extra) = at + p * (sqrt(up2) * 1.1   *)
(*     + extra), p the cross product rotated 90 degrees about base, then   *)
(*     by base.rotation_difference(span), normalized.                      *)
(***************************************************************************)
Along(at, dir, len2, plus) == <<"along", at, dir, len2, plus>>

Pole(at, cross, base, span, up2, extra) == <<"pole", at, cross, base, span, up2, extra>>

\* tail - head of a bone whose ends are grid vectors
BVec(b) == VSub(b.tail, b.head)

(***************************************************************************)
(* Call arguments the callers use.                                         *)
(***************************************************************************)
Sides == {"L", "R"}

Fingers == {"Thumb"}

Kinds == {"Arm", "Leg"}

Axes == {"X", "-X", "Y", "-Y", "Z", "-Z"}

Modes == {"OBJECT", "POSE", "EDIT"}

\* the bone a parent reference of None stands for
None == "None"

(***************************************************************************)
(* The skeleton before any synthesis: a humanoid with canonical names.     *)
(* u and l are the directions of the upper and lower limb bones, missing   *)
(* the bones the authoring tool did not export.                            *)
(***************************************************************************)
SX(side) == IF side = "L" THEN 1 ELSE -1

Mirror(side, v) == <<SX(side) * v[1], v[2], v[3]>>

SideParent(s) ==
    ("Shoulder_" \o s :> "Chest") @@ ("UpperArm_" \o s :> "Shoulder_" \o s) @@
    ("LowerArm_" \o s :> "UpperArm_" \o s) @@ ("Hand_" \o s :> "LowerArm_" \o s) @@
    ("Thumb1_" \o s :> "Hand_" \o s) @@ ("Thumb2_" \o s :> "Thumb1_" \o s) @@
    ("Thumb3_" \o s :> "Thumb2_" \o s) @@ ("Index1_" \o s :> "Hand_" \o s) @@
    ("UpperLeg_" \o s :> "Root") @@ ("LowerLeg_" \o s :> "UpperLeg_" \o s)

BaseParent == ("Root" :> None) @@ ("Chest" :> "Root") @@ SideParent("L") @@ SideParent("R")

BaseNames == DOMAIN BaseParent

\* head and tail of every base bone for limb directions u (upper) and l (lower)
BaseEnds(u, l) ==
    LET arm(s)  == <<SX(s) * 30, 0, 150>>
        elbow(s) == VAdd(arm(s), Mirror(s, u))
        wrist(s) == VAdd(elbow(s), Mirror(s, l))
        palm(s)  == VAdd(wrist(s), Mirror(s, <<30, 0, 0>>))
        hip(s)   == <<SX(s) * 30, 0, 90>>
        knee(s)  == VAdd(hip(s), Mirror(s, u))
        ankle(s) == VAdd(knee(s), Mirror(s, l))
        side(s)  ==
            ("Shoulder_" \o s :> <<<<0, 0, 150>>, arm(s)>>) @@
            ("UpperArm_" \o s :> <<arm(s), elbow(s)>>) @@
            ("LowerArm_" \o s :> <<elbow(s), wrist(s)>>) @@
            ("Hand_" \o s :> <<wrist(s), palm(s)>>) @@
            ("Thumb1_" \o s :> <<palm(s), VAdd(palm(s), <<0, 30, 0>>)>>) @@
            ("Thumb2_" \o s :> <<VAdd(palm(s), <<0, 30, 0>>), VAdd(palm(s), <<0, 60, 0>>)>>) @@
            ("Thumb3_" \o s :> <<VAdd(palm(s), <<0, 60, 0>>), VAdd(palm(s), <<0, 90, 0>>)>>) @@
            ("Index1_" \o s :> <<palm(s), VAdd(palm(s), Mirror(s, <<30, 0, 0>>))>>) @@
            ("UpperLeg_" \o s :> <<hip(s), knee(s)>>) @@
            ("LowerLeg_" \o s :> <<knee(s), ankle(s)>>)
    IN  ("Root" :> <<Zero, <<0, 30, 0>>>>) @@ ("Chest" :> <<<<0, 0, 120>>, <<0, 0, 150>>>>) @@
        side("L") @@ side("R")

RECURSIVE LiveParent(_, _)
\* the nearest ancestor of n in the base skeleton that was exported
LiveParent(n, missing) ==
    LET p == BaseParent[n]
    IN  IF p = None \/ p \notin missing THEN p ELSE LiveParent(p, missing)

Skeleton(u, l, missing) ==
    LET ends == BaseEnds(u, l)
    IN  [n \in BaseNames \ missing |->
            [head |-> ends[n][1], tail |-> ends[n][2],
             parent |-> LiveParent(n, missing), deform |-> TRUE, layer |-> 0]]

(***************************************************************************)
(* Constraint/driver binder.                                               *)
(* constraints: the pose bones' constraint stacks, in creation order, each *)
(* [owner, name, type, props]; props holds the properties the code set.    *)
(* drivers: the object's driver f-curves, in creation order.               *)
(***************************************************************************)
\* index of the first constraint named name on bone owner, 0 if there is none
FindConstraint(cs, owner, name) ==
    LET hits == {i \in 1..Len(cs) : cs[i].owner = owner /\ cs[i].name = name}
    IN  IF hits = {} THEN 0 ELSE CHOOSE i \in hits : \A j \in hits : i <= j

\* a faulty variant of add_constraint: constraints.new without the lookup by name
AddConstraintAlwaysNew(cs, owner, name, type, props) ==
    Append(cs, [owner |-> owner, name |-> name, type |-> type, props |-> props])

\* add_constraint (vrmauto) / get_bone_constraint followed by the caller's
\* assignments (vrmrig) / BoneHolder.constraint (utils): look the constraint
\* up by name, create it when absent, then set the given properties
AddConstraint(cs, owner, name, type, props) ==
    LET i == FindConstraint(cs, owner, name)
    IN  IF i = 0
        THEN Append(cs, [owner |-> owner, name |-> name, type |-> type, props |-> props])
        ELSE [cs EXCEPT ![i].props = props @@ cs[i].props]

\* a faulty variant of DriverRemove: the existing driver is left in place
DriverRemoveNothing(ds, bone, index) == ds

\* bone.driver_remove('rotation_quaternion', index)
DriverRemove(ds, bone, index) ==
    SelectSeq(ds, LAMBDA d : ~(d.bone = bone /\ d.path = "rotation_quaternion" /\ d.index = index))

\* a faulty variant of Expression: the sign of the axis is ignored
ExpressionNeverNegated(axis) == "(var - 1) * 2"

\* the sign prefix of the driver expression
NegatedExpression == "-" \o "(var - 1) * 2"

Expression(axis) ==
    IF axis \in {"-X", "-Y", "-Z"} THEN NegatedExpression ELSE "(var - 1) * 2"

\* the value of a driver expression for var = scale, both in 1/1000: Python
\* reads -(var - 1) * 2 as (-(var - 1)) * 2
Eval(expression, scale) ==
    CASE expression = "(var - 1) * 2"   -> (scale - 1000) * 2
      [] expression = NegatedExpression -> (-(scale - 1000)) * 2

\* a faulty variant of AxisIndex: the channels are counted from x = 0
AxisIndexFromZero(axis) ==
    CASE axis \in {"X", "-X"} -> 0 [] axis \in {"Y", "-Y"} -> 1 [] axis \in {"Z", "-Z"} -> 2

\* {'X':1, '-X':1, 'Y':2, '-Y':2, 'Z':3, '-Z':3}[axis]
AxisIndex(axis) ==
    CASE axis \in {"X", "-X"} -> 1 [] axis \in {"Y", "-Y"} -> 2 [] axis \in {"Z", "-Z"} -> 3

\* driver_add returns the f-curve on (bone, index), a new one when there is
\* none; the code then sets type and expression and adds one variable
DriverAdd(ds, bone, index, expression, ctrl) ==
    LET var  == [name |-> "var", type |-> "TRANSFORMS", bone_target |-> ctrl,
                 transform_type |-> "SCALE_Y", transform_space |-> "LOCAL_SPACE"]
        hits == {i \in 1..Len(ds) : ds[i].bone = bone /\ ds[i].path = "rotation_quaternion"
                                     /\ ds[i].index = index}
    IN  IF hits = {}
        THEN Append(ds, [bone |-> bone, path |-> "rotation_quaternion", index |-> index,
                         type |-> "SCRIPTED", expression |-> expression, variables |-> <<var>>])
        ELSE LET i == CHOOSE i \in hits : \A j \in hits : i <= j
             IN  [ds EXCEPT ![i].type = "SCRIPTED", ![i].expression = expression,
                            ![i].variables = Append(ds[i].variables, var)]

\* a faulty variant of SetRotationDriver: a new f-curve is appended on every call
SetRotationDriverAppend(ds, bone, axis, ctrl) ==
    Append(ds, [bone |-> bone, path |-> "rotation_quaternion", index |-> AxisIndex(axis),
                type |-> "SCRIPTED", expression |-> Expression(axis),
                variables |-> <<[name |-> "var", type |-> "TRANSFORMS", bone_target |-> ctrl,
                                 transform_type |-> "SCALE_Y", transform_space |-> "LOCAL_SPACE"]>>])

\* set_rotation_driver (vrmauto) / rotation_driver (vrmrig)
SetRotationDriver(ds, bone, axis, ctrl) ==
    DriverAdd(DriverRemove(ds, bone, AxisIndex(axis)), bone, AxisIndex(axis), Expression(axis), ctrl)

\* set_bone_layer: layers = [i == layer for i in range(32)]
SetBoneLayer(bs, bonenames, layer) ==
    [n \in DOMAIN bs |-> IF n \in bonenames THEN [bs[n] EXCEPT !.layer = layer] ELSE bs[n]]

(***************************************************************************)
(* Edit bones.                                                             *)
(***************************************************************************)
\* edit_bones.new(name): a zero-length bone at the origin without a parent
NewBone == [head |-> Zero, tail |-> Zero, parent |-> None, deform |-> TRUE, layer |-> 0]

\* bones.get(name) or bones.new(name) / get_edit_bone(name, True)
GetOrNew(bs, name) == IF name \in DOMAIN bs THEN bs ELSE bs @@ (name :> NewBone)

(***************************************************************************)
(* Calls. pc is "idle" between calls, "exit" when the body of the edit     *)
(* scope has run (or raised) and its finally clause is next, "pose" when   *)
(* the scope is left and the pose-side wiring is next. frame is the call   *)
(* in progress, last the outcome of the call that returned last: changed   *)
(* tells whether the call changed the rig, rep whether it repeats the call *)
(* that returned before it, which succeeded, before whether that call      *)
(* changed the rig, entry the mode the call was made in.                   *)
(***************************************************************************)
\* whether the step being taken changes the rig
Touched == bones' # bones \/ constraints' # constraints \/ drivers' # drivers \/ names' # names

NoFrame == [op |-> "none"]

NoCall == [op |-> "none", args |-> <<>>, status |-> "none", changed |-> FALSE, rep |-> FALSE,
           entry |-> "none", before |-> FALSE]

\* the call op(args) enters its edit scope and runs the body: bs are the
\* bones the body leaves, err the exception it raised ("" for none)
Enter(op, args, bs, err) ==
    /\ pc = "idle"
    /\ budget > 0
    /\ budget' = budget - 1
    /\ mode' = "EDIT"
    /\ bones' = bs
    /\ pc' = "exit"
    /\ UNCHANGED <<constraints, drivers, names, last>>
    /\ frame' = [op |-> op, args |-> args, prevmode |-> mode, err |-> err, changed |-> Touched,
                 rep |-> (last.op = op /\ last.args = args /\ last.status = "ok"),
                 before |-> last.changed]

\* the call op(args) raises before it touches anything
Refuse(op, args, err) ==
    /\ pc = "idle"
    /\ budget > 0
    /\ budget' = budget - 1
    /\ last' = [op |-> op, args |-> args, status |-> err, changed |-> FALSE,
                rep |-> (last.op = op /\ last.args = args /\ last.status = "ok"),
                entry |-> mode, before |-> last.changed]
    /\ UNCHANGED <<bones, constraints, drivers, names, mode, pc, frame>>

\* the call in progress returns or raises with status
Return(status) ==
    /\ last' = [op |-> frame.op, args |-> frame.args, status |-> status,
                changed |-> (frame.changed \/ Touched),
                rep |-> frame.rep, entry |-> frame.prevmode, before |-> frame.before]
    /\ frame' = NoFrame
    /\ pc' = "idle"

\* a faulty variant of Finally: the mode is not set back
FinallyKeepsMode(op) ==
    /\ pc = "exit"
    /\ frame.op = op
    /\ UNCHANGED <<bones, constraints, drivers, names, budget, mode>>
    /\ IF frame.err = "" THEN pc' = "pose" /\ UNCHANGED <<frame, last>>
                         ELSE Return(frame.err)

\* finally: bpy.ops.object.mode_set(mode = prevmode), then the pending
\* exception propagates
Finally(op) ==
    /\ pc = "exit"
    /\ frame.op = op
    /\ mode' = frame.prevmode
    /\ UNCHANGED <<bones, constraints, drivers, names, budget>>
    /\ IF frame.err = "" THEN pc' = "pose" /\ UNCHANGED <<frame, last>>
                         ELSE Return(frame.err)

\* the pose-side wiring of the call in progress: it leaves bs, cs and ds
\* and returns or raises with status
Wire(op, bs, cs, ds, status) ==
    /\ pc = "pose"
    /\ frame.op = op
    /\ bones' = bs
    /\ constraints' = cs
    /\ drivers' = ds
    /\ UNCHANGED <<names, mode, budget>>
    /\ Return(status)

(***************************************************************************)
(* Finger controller: vrmauto.gen_finger_ctrl                              *)
(***************************************************************************)
\* the f-strings of the bone names, evaluated once per (finger, side)
FingerNameTable ==
    [finger \in Fingers, side \in Sides |->
        [bone1 |-> finger \o "1_" \o side, bone2 |-> finger \o "2_" \o side,
         bone3 |-> finger \o "3_" \o side, hand |-> "Hand_" \o side,
         ctrl |-> finger \o "Ctrl_" \o side]]

FingerNames(finger, side) == FingerNameTable[finger, side]

\* the body of the edit scope: the control bone from segment 1's head to
\* 1.5 times the finger's span, parented to the hand
FingerEditBones(bs, n) ==
    LET b1   == GetOrNew(bs, n.ctrl)
        head == b1[n.bone1].head
        tail == VAdd(head, VMul(VSub(b1[n.bone3].tail, b1[n.bone1].head), 3, 2))
    IN  [b1 EXCEPT ![n.ctrl].head = head, ![n.ctrl].tail = tail, ![n.ctrl].parent = n.hand]

\* set_rotation_follow twice and set_limit_scale
FingerConstraints(cs, n) ==
    LET follow(sub) == [target |-> "obj", subtarget |-> sub,
                        target_space |-> "LOCAL", owner_space |-> "LOCAL"]
        c1 == AddConstraint(cs, n.bone3, "VRMAUTO_BendingFollow", "COPY_ROTATION", follow(n.bone2))
        c2 == AddConstraint(c1, n.bone1, "VRMAUTO_BendingFollow", "COPY_ROTATION", follow(n.ctrl))
    IN  AddConstraint(c2, n.ctrl, "VRMAUTO_ScaleLimit", "LIMIT_SCALE",
            [owner_space |-> "LOCAL",
             use_min_x |-> TRUE, use_min_y |-> TRUE, use_min_z |-> TRUE,
             use_max_x |-> TRUE, use_max_y |-> TRUE, use_max_z |-> TRUE,
             max_x |-> 1000, max_y |-> 1000, max_z |-> 1000,
             min_x |-> 1000, min_z |-> 1000, min_y |-> 500])

gen_finger_ctrl_missing(finger, side, axis) ==
    LET n == FingerNames(finger, side)
    IN  /\ \E b \in {n.bone1, n.bone2, n.bone3, n.hand} : b \notin DOMAIN bones
        /\ Refuse("gen_finger_ctrl", <<finger, side, axis>>, "AssertionError: missing bone")

gen_finger_ctrl_edit(finger, side, axis) ==
    LET n == FingerNames(finger, side)
    IN  /\ \A b \in {n.bone1, n.bone2, n.bone3, n.hand} : b \in DOMAIN bones
        /\ Enter("gen_finger_ctrl", <<finger, side, axis>>, FingerEditBones(bones, n), "")

gen_finger_ctrl_finally == Finally("gen_finger_ctrl")

gen_finger_ctrl_pose ==
    /\ pc = "pose" /\ frame.op = "gen_finger_ctrl"
    /\ LET n == FingerNames(frame.args[1], frame.args[2])
       IN  Wire("gen_finger_ctrl",
                SetBoneLayer(bones, {n.bone1, n.bone2, n.bone3}, 1),
                FingerConstraints(constraints, n),
                SetRotationDriver(drivers, n.bone2, frame.args[3], n.ctrl),
                "ok")

(***************************************************************************)
(* Finger controller: vrmrig.FingerCtrl(armature, side, finger, axis)      *)
(***************************************************************************)
\* ArmatureSupport.edit_mode, leaving: mode_set(prevmode) unless the mode
\* already is prevmode
EditModeFinally(op) ==
    /\ pc = "exit"
    /\ frame.op = op
    /\ mode' = IF frame.prevmode # mode THEN frame.prevmode ELSE mode
    /\ UNCHANGED <<bones, constraints, drivers, names, budget>>
    /\ IF frame.err = "" THEN pc' = "pose" /\ UNCHANGED <<frame, last>>
                         ELSE Return(frame.err)

\* FingerCtrl.new_bones: [bones, err]; get_edit_bone returns None for a
\* bone that is absent, and reading .head or .tail of None raises
FingerCtrlNewBones(bs, n) ==
    LET b1 == GetOrNew(bs, n.ctrl)
    IN  IF n.bone1 \notin DOMAIN bs THEN [bones |-> b1, err |-> "AttributeError"]
        ELSE LET b2 == [b1 EXCEPT ![n.ctrl].head = b1[n.bone1].head]
             IN  IF n.bone3 \notin DOMAIN bs THEN [bones |-> b2, err |-> "AttributeError"]
                 ELSE [bones |-> [b2 EXCEPT
                          ![n.ctrl].tail = VAdd(b2[n.ctrl].head,
                                VMul(VSub(b2[n.bone3].tail, b2[n.bone1].head), 3, 2)),
                          ![n.ctrl].parent = IF n.hand \in DOMAIN bs THEN n.hand ELSE None],
                       err |-> ""]

FingerCtrl_generate_edit(side, finger, axis) ==
    LET r == FingerCtrlNewBones(bones, FingerNames(finger, side))
    IN  Enter("FingerCtrl.generate", <<finger, side, axis>>, r.bones, r.err)

FingerCtrl_generate_finally == EditModeFinally("FingerCtrl.generate")

\* rotation_follow twice, rotation_driver, limit_ctrl_scale, set_bone_layer;
\* pose.bones[bone2] raises KeyError when segment 2 is absent
FingerCtrl_generate_pose ==
    /\ pc = "pose" /\ frame.op = "FingerCtrl.generate"
    /\ LET n  == FingerNames(frame.args[1], frame.args[2])
           follow(sub) == [target |-> "armature", subtarget |-> sub,
                           target_space |-> "LOCAL", owner_space |-> "LOCAL"]
           c1 == AddConstraint(constraints, n.bone3, "VRMRIG_RotationFollow", "COPY_ROTATION", follow(n.bone2))
           c2 == AddConstraint(c1, n.bone1, "VRMRIG_RotationFollow", "COPY_ROTATION", follow(n.ctrl))
           c3 == AddConstraint(c2, n.ctrl, "VRMRIG_LimitScale", "LIMIT_SCALE",
                    [use_min_x |-> TRUE, use_min_y |-> TRUE, use_min_z |-> TRUE,
                     use_max_x |-> TRUE, use_max_y |-> TRUE, use_max_z |-> TRUE,
                     min_x |-> 1000, min_z |-> 1000,
                     max_x |-> 1000, max_z |-> 1000, max_y |-> 1000,
                     min_y |-> 500, owner_space |-> "LOCAL"])
       IN  IF n.bone2 \notin DOMAIN bones
           THEN Wire("FingerCtrl.generate", bones, c2, drivers, "KeyError")
           ELSE Wire("FingerCtrl.generate",
                     SetBoneLayer(bones, {n.bone1, n.bone2, n.bone3}, 1), c3,
                     SetRotationDriver(drivers, n.bone2, frame.args[3], n.ctrl), "ok")

(***************************************************************************)
(* Finger controller: fingers.generate_finger_controller                   *)
(***************************************************************************)
\* BoneHolder(obj, name, True) passes three arguments to a constructor of
\* two: the call raises TypeError before the armature is touched
generate_finger_controller(finger, side, axis) ==
    Refuse("generate_finger_controller", <<finger, side, axis>>, "TypeError")

(***************************************************************************)
(* Limb IK: vrmauto.gen_limbs_ik                                           *)
(***************************************************************************)
LimbNameTable ==
    [kind \in Kinds, side \in Sides |->
        [root |-> "Root", upper |-> "Upper" \o kind \o "_" \o side,
         lower |-> "Lower" \o kind \o "_" \o side, ik |-> kind \o "IK_" \o side,
         pole |-> kind \o "Pole_" \o side, hand |-> "Hand_" \o side,
         fingers |-> {f \o "1_" \o side : f \in {"Index", "Middle", "Ring", "Little"}}]]

LimbNames(kind, side) == LimbNameTable[kind, side]

\* the least element of a non-empty set of integers
Min(S) == CHOOSE x \in S : \A y \in S : x <= y

\* ik_size squared: 0.24 by default; for an arm the distance from the wrist
\* to the nearest finger base that exists
IkSize2(bs, n, kind) ==
    LET have == {f \in n.fingers : f \in DOMAIN bs}
    IN  IF kind = "Arm" /\ have # {}
        THEN Min({Len2(VSub(bs[f].head, bs[n.lower].tail)) : f \in have})
        ELSE 24 * 24

\* is_left(): the lower bone points to +x
IsLeft(bs, n) == Cross2dUp(BVec(bs[n.lower])) > 0

\* a faulty variant of the degeneracy test: only a zero upper or lower vector fails
DegenerateIfZeroVector(u, l) == Len2(u) = 0 \/ Len2(l) = 0

\* pole_v.length == 0 for pole_v = upper.vector.cross(lower.vector)
Degenerate(u, l) == Len2(Cross(u, l)) = 0

\* the body of the edit scope of gen_limbs_ik: [bones, err]
LimbEditBones(bs, n, kind) ==
    LET b1     == GetOrNew(GetOrNew(bs, n.ik), n.pole)
        upper  == b1[n.upper]
        lower  == b1[n.lower]
        b2     == [b1 EXCEPT ![n.ik].head = lower.tail,
                             ![n.ik].tail = Along(lower.tail, BVec(lower), IkSize2(b1, n, kind), Zero)]
        base_v == IF kind = "Leg" THEN <<0, 0, 1>>
                  ELSE IF IsLeft(bs, n) THEN <<-1, 0, 0>> ELSE <<1, 0, 0>>
        pole_v == Cross(BVec(upper), BVec(lower))
        span   == VSub(lower.tail, upper.head)
    IN  IF Degenerate(BVec(upper), BVec(lower))
        THEN [bones |-> b2, err |-> "AssertionError: parallel"]
        ELSE [bones |-> [b2 EXCEPT
                 ![n.pole].head = Pole(lower.head, pole_v, base_v, span, Len2(BVec(upper)), 0),
                 ![n.pole].tail = Pole(lower.head, pole_v, base_v, span, Len2(BVec(upper)), 12),
                 ![n.ik].parent = n.root, ![n.pole].parent = n.root],
              err |-> ""]

\* disable_rotation: a LimitRotation constraint with every bound at zero
DisableRotation(cs, owner) ==
    AddConstraint(cs, owner, "VRMAUTO_DisableRotation", "LIMIT_ROTATION",
        [use_limit_x |-> TRUE, use_limit_y |-> TRUE, use_limit_z |-> TRUE,
         max_x |-> 0, max_y |-> 0, max_z |-> 0, min_x |-> 0, min_y |-> 0, min_z |-> 0])

\* a faulty variant of SetIk: the leg gets the pole angle of the arm
SetIkArmAngle(cs, n, kind) ==
    AddConstraint(cs, n.lower, "VRMAUTO_ArmIK", "IK",
        [target |-> "obj", subtarget |-> n.ik, pole_target |-> "obj", pole_subtarget |-> n.pole,
         chain_count |-> 2, pole_angle |-> -90])

\* set_ik: the IK constraint of the lower bone; pole_angle in degrees
SetIk(cs, n, kind) ==
    AddConstraint(cs, n.lower, "VRMAUTO_ArmIK", "IK",
        [target |-> "obj", subtarget |-> n.ik, pole_target |-> "obj", pole_subtarget |-> n.pole,
         chain_count |-> 2, pole_angle |-> IF kind = "Arm" THEN -90 ELSE 90])

gen_limbs_ik_missing(kind, side) ==
    LET n == LimbNames(kind, side)
    IN  /\ \E b \in {n.root, n.upper, n.lower} : b \notin DOMAIN bones
        /\ Refuse("gen_limbs_ik", <<kind, side>>, "AssertionError: missing bone")

gen_limbs_ik_edit(kind, side) ==
    LET n == LimbNames(kind, side)
    IN  /\ \A b \in {n.root, n.upper, n.lower} : b \in DOMAIN bones
        /\ LET r == LimbEditBones(bones, n, kind)
           IN  Enter("gen_limbs_ik", <<kind, side>>, r.bones, r.err)

gen_limbs_ik_finally == Finally("gen_limbs_ik")

\* after the scope: the pole's rotation lock, the IK constraint, then for an
\* arm the hand's CopyTransforms (pose.bones[hand_name] raises KeyError when
\* the hand is absent) and its layer, for a leg the IK bone's rotation lock
gen_limbs_ik_pose ==
    /\ pc = "pose" /\ frame.op = "gen_limbs_ik"
    /\ LET kind == frame.args[1]
           n    == LimbNames(kind, frame.args[2])
           c2   == SetIk(DisableRotation(constraints, n.pole), n, kind)
       IN  IF kind = "Arm"
           THEN IF n.hand \notin DOMAIN bones
                THEN Wire("gen_limbs_ik", bones, c2, drivers, "KeyError")
                ELSE Wire("gen_limbs_ik", SetBoneLayer(bones, {n.hand}, 1),
                          AddConstraint(c2, n.hand, "VRAMAUTO_FollowArmIK", "COPY_TRANSFORMS",
                              [target |-> "obj", subtarget |-> n.ik,
                               target_space |-> "LOCAL", owner_space |-> "LOCAL"]),
                          drivers, "ok")
           ELSE Wire("gen_limbs_ik", bones, DisableRotation(c2, n.ik), drivers, "ok")

(***************************************************************************)
(* Limb IK: vrmrig.LimbsCtrl(armature, side)                               *)
(***************************************************************************)
LimbsCtrlNameTable ==
    [side \in Sides |->
        [root |-> "Root", hand |-> "Hand_" \o side,
         lowerarm |-> "LowerArm_" \o side, armik |-> "ArmIK_" \o side,
         armpole |-> "ArmPole_" \o side, lowerleg |-> "LowerLeg_" \o side,
         legik |-> "LegIK_" \o side, legpole |-> "LegPole_" \o side]]

\* get_edit_bone(name) as a parent: the bone, or None when it is absent
BoneOrNone(bs, name) == IF name \in DOMAIN bs THEN name ELSE None

\* LimbsCtrl.new_bones: [bones, err]
LimbsCtrlNewBones(bs, n) ==
    LET root == BoneOrNone(bs, n.root)
        b1 == GetOrNew(bs, n.armik)
    IN  IF n.lowerarm \notin DOMAIN bs THEN [bones |-> b1, err |-> "AttributeError"]
        ELSE
        LET arm == bs[n.lowerarm]
            b2 == [b1 EXCEPT ![n.armik].head = arm.tail,
                             ![n.armik].tail = VAdd(arm.tail, <<0, 12, 0>>),
                             ![n.armik].parent = root]
            b3 == [GetOrNew(b2, n.armpole) EXCEPT
                             ![n.armpole].head = VAdd(arm.head, <<0, 24, 0>>),
                             ![n.armpole].tail = VAdd(VAdd(arm.head, <<0, 24, 0>>), <<0, 12, 0>>),
                             ![n.armpole].parent = root]
            b4 == GetOrNew(b3, n.legik)
        IN  IF n.lowerleg \notin DOMAIN bs THEN [bones |-> b4, err |-> "AttributeError"]
            ELSE
            LET leg == bs[n.lowerleg]
                b5 == [b4 EXCEPT ![n.legik].head = leg.tail,
                                 ![n.legik].tail = VAdd(leg.tail, <<0, 12, 0>>),
                                 ![n.legik].parent = root]
            IN  [bones |-> [GetOrNew(b5, n.legpole) EXCEPT
                                 ![n.legpole].head = VSub(leg.head, <<0, 24, 0>>),
                                 ![n.legpole].tail = VSub(VSub(leg.head, <<0, 24, 0>>), <<0, 12, 0>>),
                                 ![n.legpole].parent = root],
                 err |-> ""]

\* LimbsCtrl.ik
LimbsCtrlIk(cs, bonename, ik_bonename, pole_bonename, pole_angle, constraint_name) ==
    AddConstraint(cs, bonename, constraint_name, "IK",
        [target |-> "armature", subtarget |-> ik_bonename, pole_target |-> "armature",
         pole_subtarget |-> pole_bonename, chain_count |-> 2, pole_angle |-> pole_angle])

LimbsCtrl_generate_edit(side) ==
    LET r == LimbsCtrlNewBones(bones, LimbsCtrlNameTable[side])
    IN  Enter("LimbsCtrl.generate", <<side>>, r.bones, r.err)

LimbsCtrl_generate_finally == EditModeFinally("LimbsCtrl.generate")

LimbsCtrl_generate_pose ==
    /\ pc = "pose" /\ frame.op = "LimbsCtrl.generate"
    /\ LET n   == LimbsCtrlNameTable[frame.args[1]]
           dir == Cross2dUp(BVec(bones[n.lowerarm]))
           c1  == LimbsCtrlIk(constraints, n.lowerarm, n.armik, n.armpole,
                              IF dir > 0 THEN 180 ELSE 0, "VRMRIG_ArmIK")
       IN  Wire("LimbsCtrl.generate", bones,
                LimbsCtrlIk(c1, n.lowerleg, n.legik, n.legpole, -90, "VRMRIG_LegIK"),
                drivers, "ok")

(***************************************************************************)
(* Arm twist: vrmauto.fix_arm_twist and vrmrig.ArmTwist(armature, side)    *)
(***************************************************************************)
\* len(subarm_names): range(3)
SubArms == 3

\* f"{n+1}" for n in range(3)
Digits == <<"1", "2", "3">>

TwistNameTable ==
    [side \in Sides |->
        [hand |-> "Hand_" \o side, arm |-> "LowerArm_" \o side,
         subarms |-> [i \in 1..SubArms |-> "LowerArm" \o Digits[i] \o "_" \o side]]]

RECURSIVE SubArmBones(_, _, _, _)
\* the loop over enumerate(subarm_names), from index i (0-based) on: every
\* sub-bone gets deform, a third of the arm and the arm as its parent
SubArmBones(bs, n, arm_v, i) ==
    IF i >= SubArms THEN bs
    ELSE LET name == n.subarms[i + 1]
             head == VAdd(bs[n.arm].head, VMul(arm_v, i, 1))
             b1   == GetOrNew(bs, name)
         IN  SubArmBones([b1 EXCEPT ![name].deform = TRUE, ![name].head = head,
                                    ![name].tail = VAdd(head, arm_v), ![name].parent = n.arm],
                         n, arm_v, i + 1)

\* (arm.tail - arm.head) / len(subarm_names)
ArmV(bs, n) == VMul(BVec(bs[n.arm]), 1, SubArms)

\* a faulty variant of Influence: the factor i + 1 is lost
InfluenceFlat(i) == 900 \div SubArms

\* (i + 1) * (0.9 / len(subarm_names)) for the 0-based index i, in 1/1000
Influence(i) == (i + 1) * (900 \div SubArms)

\* the bone sub-bone i (0-based) follows: the next one, the hand for the last
Followed(n, i) == IF i = SubArms - 1 THEN n.hand ELSE n.subarms[i + 2]

RECURSIVE TwistFollow(_, _, _, _, _)
\* set_rotation_follow / rotation_follow for the sub-bones from index i on
TwistFollow(cs, n, cname, target, i) ==
    IF i >= SubArms THEN cs
    ELSE TwistFollow(
            AddConstraint(cs, n.subarms[i + 1], cname, "COPY_ROTATION",
                [target |-> target, subtarget |-> Followed(n, i),
                 use_x |-> FALSE, use_z |-> FALSE,
                 target_space |-> "LOCAL", owner_space |-> "LOCAL",
                 influence |-> Influence(i)]),
            n, cname, target, i + 1)

SubArmSet(n) == {n.subarms[i] : i \in 1..SubArms}

\* armature.edit_bones[arm_name] raises KeyError when the arm is absent
fix_arm_twist_edit(side) ==
    LET n == TwistNameTable[side]
    IN  IF n.arm \notin DOMAIN bones
        THEN Enter("fix_arm_twist", <<side>>, bones, "KeyError")
        ELSE Enter("fix_arm_twist", <<side>>, SubArmBones(bones, n, ArmV(bones, n), 0), "")

fix_arm_twist_finally == Finally("fix_arm_twist")

\* the follow constraints, repaint_weight (which touches meshes only and
\* sets the mode back to the one it found), then the layer of the sub-bones
fix_arm_twist_pose ==
    /\ pc = "pose" /\ frame.op = "fix_arm_twist"
    /\ LET n == TwistNameTable[frame.args[1]]
       IN  Wire("fix_arm_twist", SetBoneLayer(bones, SubArmSet(n), 1),
                TwistFollow(constraints, n, "VRMAUTO_ArmTwistFollow", "obj", 0), drivers, "ok")

\* ArmTwist.new_bones: get_edit_bone returns None for an absent arm, and
\* arm.tail then raises
ArmTwist_generate_edit(side) ==
    LET n == TwistNameTable[side]
    IN  IF n.arm \notin DOMAIN bones
        THEN Enter("ArmTwist.generate", <<side>>, bones, "AttributeError")
        ELSE Enter("ArmTwist.generate", <<side>>, SubArmBones(bones, n, ArmV(bones, n), 0), "")

ArmTwist_generate_finally == EditModeFinally("ArmTwist.generate")

\* the follow constraints, the arm's deform flag cleared, the repaint, the
\* layer of the sub-bones
ArmTwist_generate_pose ==
    /\ pc = "pose" /\ frame.op = "ArmTwist.generate"
    /\ LET n == TwistNameTable[frame.args[1]]
       IN  Wire("ArmTwist.generate",
                SetBoneLayer([bones EXCEPT ![n.arm].deform = FALSE], SubArmSet(n), 1),
                TwistFollow(constraints, n, "VRMRIG_ArmTwistFollow", "armature", 0), drivers, "ok")

(***************************************************************************)
(* Shoulder controller: vrmrig.ShoulderCtrl(armature, side)                *)
(***************************************************************************)
ShoulderNameTable ==
    [side \in Sides |->
        [hand |-> "Hand_" \o side, arm |-> "LowerArm_" \o side,
         shoulder |-> "Shoulder_" \o side, twist |-> "ShoulderTwist_" \o side,
         ctrl |-> "ShoulderCtrl_" \o side]]

\* ShoulderCtrl.new_bones: [bones, err]
ShoulderNewBones(bs, n) ==
    LET b1 == GetOrNew(bs, n.twist)
    IN  IF n.shoulder \notin DOMAIN bs THEN [bones |-> b1, err |-> "AttributeError"]
        ELSE
        LET shoulder == bs[n.shoulder]
            b2 == [b1 EXCEPT ![n.twist].head = shoulder.head,
                             ![n.twist].tail = VAdd(shoulder.head, VMul(BVec(shoulder), 7, 10)),
                             ![n.twist].parent = shoulder.parent]
            b3 == [b2 EXCEPT ![n.shoulder].parent = n.twist]
            b4 == GetOrNew(b3, n.ctrl)
        IN  IF n.arm \notin DOMAIN bs THEN [bones |-> b4, err |-> "AttributeError"]
            ELSE
            LET reach == Len2(VSub(bs[n.arm].head, shoulder.tail))
            IN  [bones |-> [b4 EXCEPT
                    ![n.ctrl].head = Along(shoulder.tail, BVec(shoulder), reach, Zero),
                    ![n.ctrl].tail = Along(shoulder.tail, BVec(shoulder), reach, <<0, 12, 0>>),
                    ![n.ctrl].parent = BoneOrNone(bs, n.hand)],
                 err |-> ""]

ShoulderCtrl_generate_edit(side) ==
    LET r == ShoulderNewBones(bones, ShoulderNameTable[side])
    IN  Enter("ShoulderCtrl.generate", <<side>>, r.bones, r.err)

ShoulderCtrl_generate_finally == EditModeFinally("ShoulderCtrl.generate")

\* damped_follow(self.twist, self.ctrl, 0.5), influence in 1/1000
ShoulderCtrl_generate_pose ==
    /\ pc = "pose" /\ frame.op = "ShoulderCtrl.generate"
    /\ LET n == ShoulderNameTable[frame.args[1]]
       IN  Wire("ShoulderCtrl.generate", bones,
                AddConstraint(constraints, n.twist, "VRMRIG_ShoulderFollow", "DAMPED_TRACK",
                    [target |-> "armature", subtarget |-> n.ctrl,
                     track_axis |-> "TRACK_Y", influence |-> 500]),
                drivers, "ok")

(***************************************************************************)
(* Name symmetrizer: vrmauto.symmetrize_bone_names                          *)
(* A bone name is the sequence of its pieces between underscores:          *)
(* "J_Bip_L_Hand" is <<"J", "Bip", "L", "Hand">>, "Hand_L" <<"Hand", "L">>. *)
(* names holds the names of the armature's bones as the authoring tool     *)
(* exported them, by bone.                                                 *)
(***************************************************************************)
Vendors == {"Adj", "Bip", "Opt", "Sec"}

Drop(t, k) == SubSeq(t, k + 1, Len(t))

\* "^J_(Adj|Bip|Opt|Sec)_" matches
VendorPrefix(t) == Len(t) >= 3 /\ t[1] = "J" /\ t[2] \in Vendors

\* "^J_(Adj|Bip|Opt|Sec)_L_" and "..._R_" match
SidePrefix(t, side) == VendorPrefix(t) /\ Len(t) >= 4 /\ t[3] = side

\* full_pattern.sub("", name) on a name the pattern matches
FullStrip(t) == IF Len(t) >= 4 /\ t[3] \in {"C", "L", "R"} THEN Drop(t, 3) ELSE Drop(t, 2)

\* a faulty variant of SymName: the test left != bone_name is lost, every bone
\* takes the first branch and gains the suffix
SymNameAlwaysSuffix(t) == Append(IF SidePrefix(t, "L") THEN Drop(t, 3) ELSE t, "L")

\* a faulty variant of SymName: the generic pattern is tried first
SymNameGenericFirst(t) == IF VendorPrefix(t) THEN FullStrip(t) ELSE t

\* the new name of a bone: the first rule that matches, left, right, full
SymName(t) ==
    IF SidePrefix(t, "L") THEN Append(Drop(t, 3), "L")
    ELSE IF SidePrefix(t, "R") THEN Append(Drop(t, 3), "R")
    ELSE IF VendorPrefix(t) THEN FullStrip(t)
    ELSE t

\* the loop over armature.bones.items(): bone.name = ... is a plain
\* assignment, the code holds no test for a name that is already taken
SymmetrizeAll(ns) == [i \in 1..Len(ns) |-> SymName(ns[i])]

symmetrize_bone_names_edit ==
    /\ pc = "idle"
    /\ budget > 0
    /\ budget' = budget - 1
    /\ mode' = "EDIT"
    /\ names' = SymmetrizeAll(names)
    /\ pc' = "exit"
    /\ UNCHANGED <<bones, constraints, drivers, last>>
    /\ frame' = [op |-> "symmetrize_bone_names", args |-> <<>>, prevmode |-> mode, err |-> "",
                 changed |-> Touched,
                 rep |-> (last.op = "symmetrize_bone_names" /\ last.status = "ok"),
                 before |-> last.changed]

\* finally: mode_set(mode = prevmode); the function returns
symmetrize_bone_names_finally ==
    /\ pc = "exit"
    /\ frame.op = "symmetrize_bone_names"
    /\ mode' = frame.prevmode
    /\ UNCHANGED <<bones, constraints, drivers, names, budget>>
    /\ Return("ok")

(***************************************************************************)
(* Specifications.                                                         *)
(***************************************************************************)
\* limb directions of the rest poses: bent, straight
Poses == {<<<<30, 0, 0>>, <<30, 30, 0>>>>, <<<<30, 0, 0>>, <<30, 0, 0>>>>}

\* sets of bones the authoring tool may not have exported
Missing == {{}, {"Hand_L"}, {"Thumb1_L"}, {"LowerArm_L"}}

\* the arguments of the finger calls the repository makes for the thumbs
CallerFingerArgs == {<<"Thumb", "L", "-Z">>, <<"Thumb", "R", "Z">>}

AllFingerArgs == Fingers \X Sides \X Axes

\* bone names as exported for the bones of the default skeleton
ExportedNames == << <<"J", "Bip", "C", "Hips">>, <<"J", "Bip", "L", "Hand">> >>

Idle(n) == pc = "idle" /\ frame = NoFrame /\ last = NoCall /\ budget = n

Init ==
    /\ \E p \in Poses, m \in Missing : bones = Skeleton(p[1], p[2], m)
    /\ constraints = <<>>
    /\ drivers = <<>>
    /\ names = ExportedNames
    /\ mode \in Modes
    /\ Idle(MaxCalls)

FingerStep(A) ==
    \/ \E a \in A : gen_finger_ctrl_missing(a[1], a[2], a[3])
    \/ \E a \in A : gen_finger_ctrl_edit(a[1], a[2], a[3])
    \/ gen_finger_ctrl_finally
    \/ gen_finger_ctrl_pose
    \/ \E a \in A : FingerCtrl_generate_edit(a[2], a[1], a[3])
    \/ FingerCtrl_generate_finally
    \/ FingerCtrl_generate_pose
    \/ \E a \in A : generate_finger_controller(a[1], a[2], a[3])

LimbStep ==
    \/ \E k \in Kinds, s \in Sides : gen_limbs_ik_missing(k, s)
    \/ \E k \in Kinds, s \in Sides : gen_limbs_ik_edit(k, s)
    \/ gen_limbs_ik_finally
    \/ gen_limbs_ik_pose
    \/ \E s \in Sides : LimbsCtrl_generate_edit(s)
    \/ LimbsCtrl_generate_finally
    \/ LimbsCtrl_generate_pose

TwistStep ==
    \/ \E s \in Sides : fix_arm_twist_edit(s)
    \/ fix_arm_twist_finally
    \/ fix_arm_twist_pose
    \/ \E s \in Sides : ArmTwist_generate_edit(s)
    \/ ArmTwist_generate_finally
    \/ ArmTwist_generate_pose

ShoulderStep ==
    \/ \E s \in Sides : ShoulderCtrl_generate_edit(s)
    \/ ShoulderCtrl_generate_finally
    \/ ShoulderCtrl_generate_pose

NamesStep ==
    \/ symmetrize_bone_names_edit
    \/ symmetrize_bone_names_finally

Next ==
    \/ FingerStep(CallerFingerArgs)
    \/ LimbStep
    \/ TwistStep
    \/ ShoulderStep
    \/ NamesStep

Spec == Init /\ [][Next]_vars

\* the finger synthesizers alone, for every bending axis, on a skeleton that
\* may lack one of the bones they need
FingerArgs == {a \in AllFingerArgs : a[2] = "L"}

MissingFinger == {{}, {"Hand_L"}, {"Thumb1_L"}, {"Thumb2_L"}, {"Thumb3_L"}}

InitFinger ==
    /\ \E m \in MissingFinger : bones = Skeleton(<<30, 0, 0>>, <<30, 30, 0>>, m)
    /\ constraints = <<>>
    /\ drivers = <<>>
    /\ names = ExportedNames
    /\ mode = "POSE"
    /\ Idle(MaxFingerCalls)

SpecFinger == InitFinger /\ [][FingerStep(FingerArgs)]_vars

\* the limb synthesizers alone, over limb directions that are bent,
\* parallel, anti-parallel or of length zero
Dirs == {<<0, 0, 0>>, <<30, 0, 0>>, <<-30, 0, 0>>, <<60, 0, 0>>, <<0, 30, 0>>,
         <<30, 30, 0>>, <<0, 0, 30>>, <<30, 0, 30>>}

MissingLimb == {{}, {"Hand_L"}, {"Root"}}

InitLimb ==
    /\ \E u \in Dirs, l \in Dirs, m \in MissingLimb : bones = Skeleton(u, l, m)
    /\ constraints = <<>>
    /\ drivers = <<>>
    /\ names = ExportedNames
    /\ mode = "OBJECT"
    /\ Idle(MaxLimbCalls)

SpecLimb == InitLimb /\ [][LimbStep]_vars

\* the symmetrizer alone, over armatures of one or two bones whose names
\* are made of at most MaxTokens pieces
Tokens == {"J", "Bip", "Sec", "L", "R", "C", "Hand"}

NamePool == UNION {[1..k -> Tokens] : k \in 1..MaxTokens}

InitNames ==
    /\ bones = [n \in {} |-> NewBone]
    /\ constraints = <<>>
    /\ drivers = <<>>
    /\ \E a \in NamePool : names = <<a>> \/ (a # <<"Hand", "L">> /\ names = <<a, <<"Hand", "L">>>>)
    /\ mode = "OBJECT"
    /\ Idle(MaxSymCalls)

SpecNames == InitNames /\ [][NamesStep]_vars

(***************************************************************************)
(* Properties                                                              *)
(***************************************************************************)
\* a call has returned or raised and no other is in progress
Returned(ops) == pc = "idle" /\ last.op \in ops

\* C1: at all times, on every bone, no two constraints carry the same
\* name: a binder call with a name the bone already has changes the
\* existing constraint and never adds a second one.
C1_UniqueConstraintNames ==
    \A i, j \in 1..Len(constraints) :
        (constraints[i].owner = constraints[j].owner /\ constraints[i].name = constraints[j].name)
            => i = j

\* gen_limbs_ik has run twice with the same arguments, so that every binder
\* call of the second run found its name on the bone
C1_Witness ==
    /\ Returned({"gen_limbs_ik"})
    /\ last.rep
    /\ last.status = "ok"
    /\ \E i \in 1..Len(constraints) : constraints[i].name = "VRMAUTO_ArmIK"

\* C2: when gen_finger_ctrl, gen_limbs_ik or fix_arm_twist is called again
\* with the arguments of a call that has just succeeded, the second call
\* succeeds and leaves every bone, constraint and driver as it found them.
C2_SecondCallNoOp ==
    (Returned({"gen_finger_ctrl", "gen_limbs_ik", "fix_arm_twist"}) /\ last.rep)
        => (last.status = "ok" /\ ~last.changed)

\* gen_finger_ctrl has built the controller and the driver of a finger,
\* and has run a second time on the rig it left
C2_Witness ==
    /\ Returned({"gen_finger_ctrl"})
    /\ last.rep
    /\ last.before
    /\ last.status = "ok"
    /\ ~last.changed
    /\ Len(drivers) > 0

\* the parent of bone b, k links up
RECURSIVE Ancestor(_, _)

Ancestor(b, k) ==
    IF k = 0 \/ b \notin DOMAIN bones THEN b ELSE Ancestor(bones[b].parent, k - 1)

\* C3: the parent relation has no cycle: from every bone the chain of
\* parents ends at a bone without parent, so no bone is its own ancestor,
\* and ShoulderTwist is never its own parent, after any sequence of calls.
C3_ParentsAcyclic ==
    \A b \in DOMAIN bones : Ancestor(b, Cardinality(DOMAIN bones)) \notin DOMAIN bones

\* C4: every call that opens an editing scope leaves the skeleton, when it
\* returns and when it raises, in the mode it was called in.
C4_ModeRestored ==
    (pc = "idle" /\ last.op # "none") => mode = last.entry

\* a call made in pose mode has raised inside its editing scope, and the
\* skeleton is in pose mode
C4_Witness ==
    /\ Returned({"gen_limbs_ik"})
    /\ last.status = "AssertionError: parallel"
    /\ last.entry = "POSE"
    /\ mode = "POSE"

\* C5: no step that adds a constraint or a driver, or changes one, is
\* taken while the skeleton is in edit mode.
C5_NoWiringInEditMode ==
    [][(constraints' # constraints \/ drivers' # drivers) => mode # "EDIT"]_vars

\* the bones a finger synthesis needs
FingerRequired(n) == {n.hand, n.bone1, n.bone2, n.bone3}

\* C6: a finger synthesis called while the hand bone or one of the three
\* finger segments is absent raises, and leaves the rig as it found it:
\* no controller bone, no constraint, no driver.
C6_MissingBoneNoPartialSynthesis ==
    (/\ Returned({"gen_finger_ctrl", "FingerCtrl.generate"})
     /\ FingerRequired(FingerNames(last.args[1], last.args[2])) \ DOMAIN bones # {})
        => (last.status # "ok" /\ ~last.changed)

\* C7: a gen_limbs_ik call whose root, upper and lower bones are present
\* fails with the degenerate-limb error exactly when the cross product of
\* the upper and the lower bone vector is the zero vector (parallel,
\* anti-parallel, or one of them of length zero), and then the lower bone
\* has no IK constraint of the synthesizer.
C7_DegenerateIffCrossZero ==
    (Returned({"gen_limbs_ik"}) /\ last.status # "AssertionError: missing bone")
        => LET n == LimbNames(last.args[1], last.args[2])
               c == Cross(BVec(bones[n.upper]), BVec(bones[n.lower]))
           IN  /\ (last.status = "AssertionError: parallel") <=> (c = Zero)
               /\ (c = Zero) => \A i \in 1..Len(constraints) :
                                    ~(constraints[i].owner = n.lower /\ constraints[i].type = "IK"
                                      /\ constraints[i].name = "VRMAUTO_ArmIK")

\* gen_limbs_ik has failed on an arm whose upper and lower bone point in
\* opposite directions, neither of length zero
C7_Witness ==
    /\ Returned({"gen_limbs_ik"})
    /\ last.args = <<"Arm", "L">>
    /\ last.status = "AssertionError: parallel"
    /\ BVec(bones["UpperArm_L"]) = <<30, 0, 0>>
    /\ BVec(bones["LowerArm_L"]) = <<-30, 0, 0>>

\* the rewrite gives two bones of ns one name
Collides(ns) == \E i, j \in 1..Len(ns) : i # j /\ SymName(ns[i]) = SymName(ns[j])

\* C8: a symmetrize_bone_names call whose rewrite would give a bone the
\* name of another bone ends with an error.
C8_CollisionRejected ==
    [][(pc = "idle" /\ pc' = "exit" /\ frame'.op = "symmetrize_bone_names" /\ Collides(names))
          => frame'.err # ""]_vars

\* C9: a symmetrize_bone_names call on the names a symmetrize_bone_names
\* call has produced renames nothing, also for names with nested vendor
\* prefixes.
C9_SecondCallRenamesNothing ==
    (Returned({"symmetrize_bone_names"}) /\ last.rep) => ~last.changed

\* C9, amended: a symmetrize_bone_names call on the names a
\* symmetrize_bone_names call has produced renames nothing when none of
\* these names begins with a vendor prefix.
C9_IdempotentWithoutVendorPrefix ==
    [][(/\ Returned({"symmetrize_bone_names"})
        /\ last.status = "ok"
        /\ \A i \in 1..Len(names) : ~VendorPrefix(names[i])
        /\ pc' = "exit" /\ frame'.op = "symmetrize_bone_names")
          => names' = names]_vars

\* the first call has renamed the one bone to Hand_L, the second call has
\* run on this name and has renamed nothing
C9_Witness ==
    /\ Returned({"symmetrize_bone_names"})
    /\ last.rep
    /\ last.before
    /\ ~last.changed
    /\ names = << <<"Hand", "L">> >>

\* the variable a finger driver reads: the scale-Y of the controller
ReadsCtrlScaleY(v, ctrl) ==
    /\ v.type = "TRANSFORMS"
    /\ v.bone_target = ctrl
    /\ v.transform_type = "SCALE_Y"
    /\ v.transform_space = "LOCAL_SPACE"

\* C10: after any sequence of finger synthesis calls, a channel of the
\* rotation quaternion of segment 2 has at most one driver, and every
\* driver has exactly one input variable, which reads the local scale-Y
\* of the controller of its finger.
C10_OneDriverPerChannel ==
    /\ \A i, j \in 1..Len(drivers) :
           (drivers[i].bone = drivers[j].bone /\ drivers[i].path = drivers[j].path
            /\ drivers[i].index = drivers[j].index) => i = j
    /\ \A i \in 1..Len(drivers) :
           /\ Len(drivers[i].variables) = 1
           /\ \E a \in FingerArgs :
                  LET n == FingerNames(a[1], a[2])
                  IN  drivers[i].bone = n.bone2 /\ ReadsCtrlScaleY(drivers[i].variables[1], n.ctrl)

\* a finger synthesis has run twice with the same axis, and segment 2 has
\* its one driver
C10_Witness ==
    /\ Returned({"gen_finger_ctrl", "FingerCtrl.generate"})
    /\ last.rep
    /\ last.status = "ok"
    /\ Len(drivers) = 1

\* the drivers on channel index of the rotation quaternion of bone
DriversOn(bone, index) ==
    SelectSeq(drivers, LAMBDA d : d.bone = bone /\ d.path = "rotation_quaternion" /\ d.index = index)

\* a finger synthesis has succeeded and no other call is in progress
FingerDone == Returned({"gen_finger_ctrl", "FingerCtrl.generate"}) /\ last.status = "ok"

\* the driver the finger synthesis that returned last has installed
LastDriver ==
    DriversOn(FingerNames(last.args[1], last.args[2]).bone2, AxisIndex(last.args[3]))[1]

\* C11: the driver a finger synthesis installs evaluates to 0 at a
\* controller scale-Y of 1.0, and at 0.5 to +1.0 for the axes X, Y, Z and
\* to -1.0 for the axes -X, -Y, -Z.
C11_SignFollowsAxis ==
    FingerDone =>
        /\ Eval(LastDriver.expression, 1000) = 0
        /\ Eval(LastDriver.expression, 500) = IF last.args[3] \in {"X", "Y", "Z"} THEN 1000 ELSE -1000

\* C11, amended: the driver a finger synthesis installs evaluates to 0 at
\* a controller scale-Y of 1.0, and at 0.5 to -1.0 for the axes X, Y, Z and
\* to +1.0 for the axes -X, -Y, -Z.
C11_SignOppositeToAxis ==
    FingerDone =>
        /\ Eval(LastDriver.expression, 1000) = 0
        /\ Eval(LastDriver.expression, 500) = IF last.args[3] \in {"X", "Y", "Z"} THEN -1000 ELSE 1000

\* a finger synthesis for the axis -Z has installed its driver, which gives
\* +1.0 at scale-Y 0.5
C11_Witness ==
    /\ FingerDone
    /\ last.args[3] = "-Z"
    /\ Eval(LastDriver.expression, 500) = 1000

\* an arm-twist synthesis has succeeded and no other call is in progress
TwistDone == Returned({"fix_arm_twist", "ArmTwist.generate"}) /\ last.status = "ok"

\* the name either arm-twist synthesis gives its follow constraints
TwistConstraintName ==
    IF last.op = "fix_arm_twist" THEN "VRMAUTO_ArmTwistFollow" ELSE "VRMRIG_ArmTwistFollow"

\* the follow constraint of LowerArm<i>_<side> of the synthesis that
\* returned last
TwistConstraint(i) ==
    constraints[FindConstraint(constraints, TwistNameTable[last.args[1]].subarms[i],
                               TwistConstraintName)]

\* C12: after a successful arm-twist synthesis each of LowerArm1..3 of the
\* side has a CopyRotation constraint without X and Z, LowerArm1 follows
\* LowerArm2, LowerArm2 follows LowerArm3 and LowerArm3 follows the hand,
\* with the influences 0.3, 0.6 and 0.9: strictly increasing, ending at 0.9.
C12_TwistFollowChain ==
    TwistDone =>
        LET side == last.args[1]
            next == <<"LowerArm2_" \o side, "LowerArm3_" \o side, "Hand_" \o side>>
        IN  /\ \A i \in 1..3 :
                /\ FindConstraint(constraints, "LowerArm" \o ToString(i) \o "_" \o side,
                                  TwistConstraintName) # 0
                /\ TwistConstraint(i).type = "COPY_ROTATION"
                /\ ~TwistConstraint(i).props.use_x
                /\ ~TwistConstraint(i).props.use_z
                /\ TwistConstraint(i).props.subtarget = next[i]
                /\ TwistConstraint(i).props.influence = i * 300
            /\ TwistConstraint(1).props.influence < TwistConstraint(2).props.influence
            /\ TwistConstraint(2).props.influence < TwistConstraint(3).props.influence
            /\ TwistConstraint(3).props.influence = 900

\* fix_arm_twist has succeeded on the left arm, and LowerArm3_L follows the
\* hand with influence 0.9
C12_Witness ==
    /\ Returned({"fix_arm_twist"})
    /\ last.status = "ok"
    /\ last.args = <<"L">>
    /\ TwistConstraint(3).props.subtarget = "Hand_L"
    /\ TwistConstraint(3).props.influence = 900

\* C13: after a successful arm-twist synthesis the bones added under the
\* lower arm are exactly the three sub-bones LowerArm1..3 of the side, each
\* a third of the lower arm, laid end to end from its head to its tail,
\* each with deform set, and the lower arm itself has deform cleared.
C13_ThreeDeformingSubBones ==
    TwistDone =>
        LET side == last.args[1]
            arm  == "LowerArm_" \o side
            sub  == <<"LowerArm1_" \o side, "LowerArm2_" \o side, "LowerArm3_" \o side>>
        IN  /\ {b \in DOMAIN bones \ BaseNames : bones[b].parent = arm} = {sub[1], sub[2], sub[3]}
            /\ \A i \in 1..3 :
                   /\ bones[sub[i]].deform
                   /\ VMul(BVec(bones[sub[i]]), 3, 1) = BVec(bones[arm])
            /\ bones[sub[1]].head = bones[arm].head
            /\ bones[sub[1]].tail = bones[sub[2]].head
            /\ bones[sub[2]].tail = bones[sub[3]].head
            /\ bones[sub[3]].tail = bones[arm].tail
            /\ ~bones[arm].deform

\* the constraints of type type on bone owner
ConstraintsOf(owner, type) ==
    SelectSeq(constraints, LAMBDA c : c.owner = owner /\ c.type = type)

\* bone owner has a local-space CopyRotation that follows bone sub
FollowsLocally(owner, sub) ==
    \E i \in 1..Len(constraints) :
        /\ constraints[i].owner = owner
        /\ constraints[i].type = "COPY_ROTATION"
        /\ constraints[i].props.subtarget = sub
        /\ constraints[i].props.target_space = "LOCAL"
        /\ constraints[i].props.owner_space = "LOCAL"

\* the first call of the behaviour, a finger synthesis, has succeeded: it
\* found the three segments and the hand, and no control bone
FirstFingerDone ==
    /\ FingerDone
    /\ budget = MaxFingerCalls - 1
    /\ FingerRequired(FingerNames(last.args[1], last.args[2])) \subseteq DOMAIN bones

\* C14: a successful finger synthesis on a skeleton with the three
\* segments and the hand and without the control bone creates the control
\* bone under the hand, makes segment 3 follow segment 2 and segment 1
\* follow the control bone by local-space CopyRotation, puts exactly one
\* LimitScale on the control bone and exactly one driver on segment 2, on
\* channel 1, 2 or 3 for the axis X, Y or Z, with the expression negated
\* exactly for the axes -X, -Y and -Z.
C14_FingerSynthesis ==
    FirstFingerDone =>
        LET finger == last.args[1]
            side   == last.args[2]
            axis   == last.args[3]
            seg(k) == finger \o k \o "_" \o side
            ctrl   == finger \o "Ctrl_" \o side
            on2    == SelectSeq(drivers, LAMBDA d : d.bone = seg("2"))
        IN  /\ ctrl \in DOMAIN bones
            /\ bones[ctrl].parent = "Hand_" \o side
            /\ FollowsLocally(seg("3"), seg("2"))
            /\ FollowsLocally(seg("1"), ctrl)
            /\ Len(ConstraintsOf(ctrl, "LIMIT_SCALE")) = 1
            /\ Len(on2) = 1
            /\ on2[1].path = "rotation_quaternion"
            /\ on2[1].index = (CASE axis \in {"X", "-X"} -> 1 [] axis \in {"Y", "-Y"} -> 2
                                 [] axis \in {"Z", "-Z"} -> 3)
            /\ on2[1].expression = IF axis \in {"-X", "-Y", "-Z"} THEN "-(var - 1) * 2"
                                                                 ELSE "(var - 1) * 2"

\* the synthesis for Thumb, L, -Z has run on the fresh skeleton: Thumb2_L
\* has a negated driver on channel 3
C14_Witness ==
    /\ FirstFingerDone
    /\ last.args = <<"Thumb", "L", "-Z">>
    /\ "ThumbCtrl_L" \in DOMAIN bones
    /\ DriversOn("Thumb2_L", 3)[1].expression = "-(var - 1) * 2"

\* gen_limbs_ik has succeeded and no other call is in progress
LimbDone == Returned({"gen_limbs_ik"}) /\ last.status = "ok"

\* the IK bone and the pole bone of the call hang under Root, and c is an
\* IK constraint on them with chain_count 2 and the pole angle of the kind
LimbIkAsBuilt(c) ==
    LET kind == last.args[1]
        side == last.args[2]
    IN  /\ bones[kind \o "IK_" \o side].parent = "Root"
        /\ bones[kind \o "Pole_" \o side].parent = "Root"
        /\ c.type = "IK"
        /\ c.props.subtarget = kind \o "IK_" \o side
        /\ c.props.pole_subtarget = kind \o "Pole_" \o side
        /\ c.props.chain_count = 2
        /\ c.props.pole_angle = IF kind = "Arm" THEN -90 ELSE 90

\* C15: after a successful gen_limbs_ik(kind, side) the IK bone and the
\* pole bone have parent Root, and the lower bone carries exactly one IK
\* constraint, on the IK bone with the pole bone as pole target,
\* chain_count 2 and pole_angle -90 degrees for Arm and +90 for Leg.
C15_OneIkConstraint ==
    LimbDone =>
        LET own == ConstraintsOf("Lower" \o last.args[1] \o "_" \o last.args[2], "IK")
        IN  Len(own) = 1 /\ LimbIkAsBuilt(own[1])

\* C15, amended: after a successful gen_limbs_ik(kind, side) the IK bone
\* and the pole bone have parent Root, and the lower bone carries exactly
\* one constraint named VRMAUTO_ArmIK, an IK constraint on the IK bone with
\* the pole bone as pole target, chain_count 2 and pole_angle -90 degrees
\* for Arm and +90 for Leg; every other IK constraint on the lower bone is
\* the VRMRIG_ArmIK or VRMRIG_LegIK of LimbsCtrl.generate.
C15_OneOwnIkConstraint ==
    LimbDone =>
        LET lower == "Lower" \o last.args[1] \o "_" \o last.args[2]
            own   == SelectSeq(constraints,
                               LAMBDA c : c.owner = lower /\ c.name = "VRMAUTO_ArmIK")
            all   == ConstraintsOf(lower, "IK")
        IN  /\ Len(own) = 1
            /\ LimbIkAsBuilt(own[1])
            /\ \A i \in 1..Len(all) :
                   all[i].name \in {"VRMAUTO_ArmIK", "VRMRIG_ArmIK", "VRMRIG_LegIK"}

\* gen_limbs_ik has succeeded on the right leg after LimbsCtrl.generate:
\* LowerLeg_R carries the IK constraints of both
C15_Witness ==
    /\ LimbDone
    /\ last.args = <<"Leg", "R">>
    /\ Len(ConstraintsOf("LowerLeg_R", "IK")) = 2
    /\ \E i \in 1..Len(constraints) :
           /\ constraints[i].owner = "LowerLeg_R"
           /\ constraints[i].name = "VRMAUTO_ArmIK"
           /\ constraints[i].props.pole_angle = 90

\* the name t begins with J_<vendor>_
HasVendor(t) == Len(t) >= 3 /\ t[1] = "J" /\ t[2] \in {"Adj", "Bip", "Opt", "Sec"}

\* the name the rules of C16 give the name t
Rewritten(t) ==
    IF HasVendor(t) /\ Len(t) >= 4 /\ t[3] = "L" THEN SubSeq(t, 4, Len(t)) \o <<"L">>
    ELSE IF HasVendor(t) /\ Len(t) >= 4 /\ t[3] = "R" THEN SubSeq(t, 4, Len(t)) \o <<"R">>
    ELSE IF HasVendor(t) /\ Len(t) >= 4 /\ t[3] = "C" THEN SubSeq(t, 4, Len(t))
    ELSE IF HasVendor(t) THEN SubSeq(t, 3, Len(t))
    ELSE t

\* C16: a symmetrize_bone_names call rewrites every bone name once, by the
\* first rule that matches: J_<vendor>_L_ is replaced by the suffix _L,
\* J_<vendor>_R_ by the suffix _R, any other J_<vendor>_ with the C_ that
\* may follow it is dropped, and a name without such a prefix stays.
C16_OneRewritePerBone ==
    [][(pc = "idle" /\ pc' = "exit" /\ frame'.op = "symmetrize_bone_names")
          => /\ Len(names') = Len(names)
             /\ \A i \in 1..Len(names) : names'[i] = Rewritten(names[i])]_vars

\* the first call has renamed a bone with a right-side prefix to Hand_R
C16_Witness ==
    /\ Returned({"symmetrize_bone_names"})
    /\ ~last.rep
    /\ last.changed
    /\ names[1] = <<"Hand", "R">>

\* C17: a gen_limbs_ik call that raises, for a limb whose bones are
\* parallel or for an arm whose hand is absent, leaves the rig as it found
\* it: it has created no IK or pole bone that is left without the parent
\* Root, and has attached neither the IK constraint of the lower bone nor
\* the LimitRotation of the pole bone.
C17_FailedLimbCallChangesNothing ==
    (Returned({"gen_limbs_ik"}) /\ last.status # "ok") =>
        LET n == LimbNames(last.args[1], last.args[2])
        IN  /\ ~last.changed
            /\ \A b \in {n.ik, n.pole} \cap DOMAIN bones : bones[b].parent = "Root"
            /\ \A i \in 1..Len(constraints) :
                   ~(constraints[i].owner = n.lower /\ constraints[i].name = "VRMAUTO_ArmIK")
                   /\ ~(constraints[i].owner = n.pole
                        /\ constraints[i].name = "VRMAUTO_DisableRotation")

\* every constraint of the rig is one of vrmauto's finger synthesis: no
\* other synthesizer has wired anything
OnlyVrmautoFingerCalls ==
    \A i \in 1..Len(constraints) :
        constraints[i].name \in {"VRMAUTO_BendingFollow", "VRMAUTO_ScaleLimit"}

\* C18: after successful gen_finger_ctrl calls for one finger and side,
\* with whatever bending axes, segment 2 carries exactly one driver, and
\* it is on the channel of the axis of the last call.
C18_DriverOnLatestAxisOnly ==
    (Returned({"gen_finger_ctrl"}) /\ last.status = "ok" /\ OnlyVrmautoFingerCalls) =>
        LET axis == last.args[3]
            on2  == SelectSeq(drivers, LAMBDA d : d.bone = last.args[1] \o "2_" \o last.args[2])
        IN  /\ Len(on2) = 1
            /\ on2[1].index = (IF axis \in {"X", "-X"} THEN 1
                               ELSE IF axis \in {"Y", "-Y"} THEN 2 ELSE 3)

=============================================================================
